---- MODULE Spec2Model ----
(***************************************************************************)
(* The AIESEC Exchange Analytics dashboard (streamlit_app.py) as a state   *)
(* machine.  One run of the script is one render; the script position is   *)
(* pc.  The only state that survives a render is the widget state and the  *)
(* st.cache_data store of fetch_exchange_data.                             *)
(*                                                                         *)
(* Optional values (None, "not produced yet") are sequences of length <= 1.*)
(* A JSON object is a function whose domain is its set of keys.            *)
(* A DataFrame is the sequence of its rows.                                *)
(***************************************************************************)
EXTENDS Integers, Sequences, FiniteSets, TLC

VARIABLES
    access_token,            \* sidebar text_input, line 21
    selected_exchange_type,  \* sidebar selectbox, line 40
    selected_programmes,     \* sidebar multiselect, line 51
    entity_id_input,         \* sidebar text_input, line 58 (a sequence of characters)
    start_date,              \* sidebar date_input, line 69
    end_date,                \* sidebar date_input, line 70
    office_id,               \* int(entity_id_input), line 63 (optional)
    pc,                      \* position of the script run
    renders,                 \* number of script runs started
    now,                     \* wall clock, seconds
    cache,                   \* st.cache_data store: set of [key, value, stored_at]
    fetch_log,               \* history: every fetch answered by the server and returned
    cache_lookups,           \* cache lookups of this render
    gets,                    \* requests.get calls of this render
    request,                 \* params of the GET of this render (optional)
    response,                \* the server's response of this render (optional)
    exchange_df,             \* line 137 (optional)
    selected_statuses,       \* line 154
    filtered_df,             \* line 162 (optional)
    pivot_df,                \* line 184 (optional)
    funnel_data,             \* line 187 (a sequence; empty until the loop has run)
    metrics,                 \* lines 207-218 (optional)
    output,                  \* messages, charts and tables this render put on the page
    shown_json,              \* argument of st.json in this render (optional)
    trace                    \* pipeline stages entered by this render, in order

vars == << access_token, selected_exchange_type, selected_programmes, entity_id_input,
           start_date, end_date, office_id, pc, renders, now, cache, fetch_log,
           cache_lookups, gets, request, response, exchange_df, selected_statuses,
           filtered_df, pivot_df, funnel_data, metrics, output, shown_json, trace >>

widgets == << access_token, selected_exchange_type, selected_programmes,
              entity_id_input, start_date, end_date >>

\* ---------------------------------------------------------------- bounds
MaxRenders == 3        \* script runs in one behaviour of Spec
MaxCacheRenders == 2   \* script runs in one behaviour of SpecCache
MaxNow == 3600         \* the clock stops advancing here
MaxPayloadSize == 5    \* stage keys plus buckets of a generated analytics payload
MaxMonth == 2          \* bucket months of a generated payload: 2024-01 .. 2024-MaxMonth

\* ---------------------------------------------------------------- program constants
ttl == 3600
OK200 == 200
interval == "month"

exchange_type_map == [Outgoing |-> "person", Incoming |-> "opportunity"]

programme_map == [GlobalVolunteer |-> 6, GlobalTalent |-> 7, GlobalTeacher |-> 8]

STATUS_MAP == << << "total_applications", "Applied" >>,
                 << "total_an_accepted", "Accepted" >>,
                 << "total_approvals", "Approved" >>,
                 << "total_realized", "Realized" >>,
                 << "total_finished", "Finished" >>,
                 << "total_completed", "Completed" >> >>

funnel_steps == << "Applied", "Accepted", "Approved", "Realized", "Finished", "Completed" >>

\* ---------------------------------------------------------------- helpers
None == << >>
Some(x) == << x >>
EmptyObj == [k \in {} |-> 0]

Range(s) == { s[i] : i \in 1..Len(s) }

\* int(entity_id_input), line 63: an optional sign and one or more decimal digits;
\* anything else raises ValueError (None here).
DigitValue == [c \in {"0", "1", "2", "3", "4", "5", "6", "7", "8", "9"} |->
                 CASE c = "0" -> 0 [] c = "1" -> 1 [] c = "2" -> 2 [] c = "3" -> 3
                   [] c = "4" -> 4 [] c = "5" -> 5 [] c = "6" -> 6 [] c = "7" -> 7
                   [] c = "8" -> 8 [] c = "9" -> 9]

RECURSIVE DigitsValue(_, _)
DigitsValue(s, acc) ==
    IF s = << >> THEN acc ELSE DigitsValue(Tail(s), 10 * acc + DigitValue[Head(s)])

int(s) ==
    LET signed == s # << >> /\ Head(s) \in {"-", "+"}
        digits == IF signed THEN Tail(s) ELSE s
    IN  IF digits = << >> \/ \E i \in 1..Len(digits) : digits[i] \notin DOMAIN DigitValue
        THEN None
        ELSE Some(IF signed /\ Head(s) = "-" THEN 0 - DigitsValue(digits, 0)
                  ELSE DigitsValue(digits, 0))

\* date.isoformat(), lines 83-84: YYYY-MM-DD, zero padded, as a character sequence.
DigitChar == << "0", "1", "2", "3", "4", "5", "6", "7", "8", "9" >>

DigitAt(n, unit) == DigitChar[((n \div unit) % 10) + 1]

isoformat(d) ==
    << DigitAt(d[1], 1000), DigitAt(d[1], 100), DigitAt(d[1], 10), DigitAt(d[1], 1), "-",
       DigitAt(d[2], 10), DigitAt(d[2], 1), "-",
       DigitAt(d[3], 10), DigitAt(d[3], 1) >>

\* pd.to_datetime(b["key_as_string"]), line 128.  A bucket timestamp is modelled by
\* its year and month; the Timestamp is the count of months since year 0.
to_datetime(s) == 12 * s[1] + (s[2] - 1)

\* ---------------------------------------------------------------- Funnel Normalizer
\* Lines 126-131: one row per bucket, appended in payload order.
RECURSIVE AppendBuckets(_, _, _)
AppendBuckets(rows, buckets, label) ==
    IF buckets = << >> THEN rows
    ELSE AppendBuckets(
             Append(rows, [date |-> to_datetime(Head(buckets).key_as_string),
                           status |-> label,
                           count |-> Head(buckets).doc_count]),
             Tail(buckets), label)

\* A slip of the loop at lines 119-131: the first stage without data ends the loop.
RECURSIVE NormalizeFromBreak(_, _, _)
NormalizeFromBreak(data, i, rows) ==
    IF i > Len(STATUS_MAP) THEN rows
    ELSE LET key == STATUS_MAP[i][1]
             label == STATUS_MAP[i][2]
             parent_key == IF key = "total_signup" THEN "people" ELSE "applications"
         IN  IF key \notin DOMAIN data THEN rows
             ELSE IF parent_key \notin DOMAIN data[key]
                     \/ "buckets" \notin DOMAIN data[key][parent_key]
                  THEN rows
                  ELSE NormalizeFromBreak(data, i + 1,
                           AppendBuckets(rows, data[key][parent_key]["buckets"], label))

\* Lines 118-131: the loop over STATUS_MAP.items() from its i-th entry on.
RECURSIVE NormalizeFrom(_, _, _)
NormalizeFrom(data, i, rows) ==
    IF i > Len(STATUS_MAP) THEN rows
    ELSE LET key == STATUS_MAP[i][1]
             label == STATUS_MAP[i][2]
             parent_key == IF key = "total_signup" THEN "people" ELSE "applications"
         IN  IF key \notin DOMAIN data THEN NormalizeFrom(data, i + 1, rows)
             ELSE IF parent_key \notin DOMAIN data[key]
                     \/ "buckets" \notin DOMAIN data[key][parent_key]
                  THEN NormalizeFrom(data, i + 1, rows)
                  ELSE NormalizeFrom(data, i + 1,
                           AppendBuckets(rows, data[key][parent_key]["buckets"], label))

\* Lines 107-134: rows of the analytics payload, as a DataFrame.
normalize(data) == NormalizeFrom(data, 1, << >>)

\* ---------------------------------------------------------------- Aggregator
\* Lines 159 and 162: rows of the selected statuses, "Sign Up" removed.
filter_rows(df, selected) ==
    LET chosen == SelectSeq(df, LAMBDA r : r.status \in selected)
    IN  SelectSeq(chosen, LAMBDA r : r.status # "Sign Up")

\* exchange_df["status"].unique(), line 153: the statuses that occur.
unique_statuses(df) == { df[i].status : i \in 1..Len(df) }

\* DataFrame.pivot raises ValueError ("Index contains duplicate entries, cannot
\* reshape") when two rows share (index, columns); line 184.
has_duplicate_entries(df) ==
    \E i, j \in 1..Len(df) :
        i < j /\ df[i].date = df[j].date /\ df[i].status = df[j].status

\* filtered_df.pivot(index="date", columns="status", values="count").fillna(0),
\* line 184, for a frame without duplicate entries.
pivot(df) ==
    LET index == { df[i].date : i \in 1..Len(df) }
        columns == { df[i].status : i \in 1..Len(df) }
    IN  [index |-> index,
         columns |-> columns,
         cell |-> [c \in index \X columns |->
                     IF \E i \in 1..Len(df) : df[i].date = c[1] /\ df[i].status = c[2]
                     THEN df[CHOOSE i \in 1..Len(df) :
                                 df[i].date = c[1] /\ df[i].status = c[2]].count
                     ELSE 0]]

RECURSIVE SumColumn(_, _, _)
SumColumn(table, column, dates) ==
    IF dates = {} THEN 0
    ELSE LET d == CHOOSE x \in dates : TRUE
         IN  table.cell[<< d, column >>] + SumColumn(table, column, dates \ {d})

\* pivot_df.get(step, pd.Series([0])).sum(), lines 191, 192, 209-216.
column_sum(table, step) ==
    IF step \in table.columns THEN SumColumn(table, step, table.index) ELSE 0

\* to_sum / from_sum if from_sum > 0 else 0, lines 193 and 217, as an exact fraction.
rate(to_sum, from_sum) ==
    IF from_sum > 0 THEN [num |-> to_sum, den |-> from_sum] ELSE [num |-> 0, den |-> 1]

\* Lines 187-199: one entry per adjacent pair of funnel_steps.
funnel(table) ==
    [i \in 1..(Len(funnel_steps) - 1) |->
        LET step_from == funnel_steps[i]
            step_to == funnel_steps[i + 1]
            from_sum == column_sum(table, step_from)
            to_sum == column_sum(table, step_to)
        IN  [step_from |-> step_from, step_to |-> step_to,
             from_count |-> from_sum, to_count |-> to_sum,
             conversion |-> rate(to_sum, from_sum)]]

\* Lines 207-218.
key_metrics(table) ==
    [total_applied |-> column_sum(table, "Applied"),
     total_approved |-> column_sum(table, "Approved"),
     total_realized |-> column_sum(table, "Realized"),
     realization_rate |-> rate(column_sum(table, "Realized"), column_sum(table, "Applied"))]

\* ---------------------------------------------------------------- Remote Fetcher
\* A cache key that leaves office_id out.
MakeKeyNoOffice(token, exchange_type, programmes, start, end, ivl, office) ==
    << token, exchange_type, programmes, start, end, ivl, 0 >>

\* The arguments st.cache_data hashes into the cache key of fetch_exchange_data,
\* lines 78-79 and 137-144 (interval keeps its default).
MakeKey(token, exchange_type, programmes, start, end, ivl, office) ==
    << token, exchange_type, programmes, start, end, ivl, office >>

\* Whether a cached entry is still served at time t (ttl=3600, line 78).
Fresh(entry, t) == t - entry.stored_at < ttl

\* Lines 82-93: the query parameters of the GET.
RECURSIVE MapProgrammes(_)
MapProgrammes(programmes) ==
    IF programmes = << >> THEN << >>
    ELSE << programme_map[Head(programmes)] >> \o MapProgrammes(Tail(programmes))

build_params(token, exchange_type, programmes, start, end, ivl, office) ==
    [start_date |-> isoformat(start),
     end_date |-> isoformat(end),
     histogram_type |-> exchange_type_map[exchange_type],
     histogram_interval |-> ivl,
     exchange_type |-> exchange_type_map[exchange_type],
     histogram_office_id |-> office,
     access_token |-> token,
     programmes |-> MapProgrammes(programmes)]

\* A status check that lets every 2xx status through.
AnySuccessStatusPasses(status) == status < 200 \/ status > 299

\* response.status_code != 200, line 96.
status_fails(status) == status # OK200

\* response.json(), lines 98 and 101: the decoded body, or None when the body is
\* not JSON (requests raises JSONDecodeError).
json(resp) == IF resp.body.is_json THEN Some(resp.body.value) ELSE None

\* ---------------------------------------------------------------- script positions
Terminal == { "stopped", "exception", "done" }
AtRest == Terminal \cup { "idle" }

\* st.stop(): the script run ends, nothing after it runs.
Stop(elements) ==
    /\ output' = output \o elements
    /\ pc' = "stopped"

\* An uncaught exception ends the script run; Streamlit shows the exception.
Raise(elements) ==
    /\ output' = output \o elements \o << "exception" >>
    /\ pc' = "exception"

\* ---------------------------------------------------------------- actions
\* A widget interaction (or a page load) starts a script run from the top with the
\* widget values of that moment; lines 9-24.
Rerun(token, exchange_type, programmes, entity, start, end) ==
    /\ pc \in AtRest
    /\ renders' = renders + 1
    /\ access_token' = token
    /\ selected_exchange_type' = exchange_type
    /\ selected_programmes' = programmes
    /\ entity_id_input' = entity
    /\ start_date' = start
    /\ end_date' = end
    /\ office_id' = None
    /\ cache_lookups' = 0
    /\ gets' = 0
    /\ request' = None
    /\ response' = None
    /\ exchange_df' = None
    /\ selected_statuses' = {}
    /\ filtered_df' = None
    /\ pivot_df' = None
    /\ funnel_data' = << >>
    /\ metrics' = None
    /\ output' = << >>
    /\ shown_json' = None
    /\ trace' = << >>
    /\ pc' = "token_guard"
    /\ UNCHANGED << now, cache, fetch_log >>

\* Time passes between script runs.
Tick(d) ==
    /\ pc \in AtRest
    /\ now + d <= MaxNow
    /\ now' = now + d
    /\ UNCHANGED << widgets, office_id, pc, renders, cache, fetch_log, cache_lookups,
                    gets, request, response, exchange_df, selected_statuses,
                    filtered_df, pivot_df, funnel_data, metrics, output, shown_json,
                    trace >>

\* Lines 25-33 without the check of the token.
TokenGuardSkipped ==
    /\ pc = "token_guard"
    /\ trace' = Append(trace, "input")
    /\ pc' = "entity_guard"
    /\ UNCHANGED << widgets, office_id, renders, now, cache, fetch_log, cache_lookups,
                    gets, request, response, exchange_df, selected_statuses,
                    filtered_df, pivot_df, funnel_data, metrics, output, shown_json >>

TokenGuard ==
    /\ pc = "token_guard"
    /\ trace' = Append(trace, "input")
    /\ IF access_token = ""
       THEN Stop(<< "info_token" >>)
       ELSE pc' = "entity_guard" /\ output' = output
    /\ UNCHANGED << widgets, office_id, renders, now, cache, fetch_log, cache_lookups,
                    gets, request, response, exchange_df, selected_statuses,
                    filtered_df, pivot_df, funnel_data, metrics, shown_json >>

\* Lines 62-66.
EntityGuard ==
    /\ pc = "entity_guard"
    /\ IF int(entity_id_input) = None
       THEN Stop(<< "warning_entity" >>) /\ office_id' = None
       ELSE office_id' = int(entity_id_input) /\ pc' = "fetch_call" /\ output' = output
    /\ UNCHANGED << widgets, renders, now, cache, fetch_log, cache_lookups, gets,
                    request, response, exchange_df, selected_statuses, filtered_df,
                    pivot_df, funnel_data, metrics, shown_json, trace >>

\* Lines 137-144 with the st.cache_data wrapper of line 78: a fresh entry under the
\* key is returned and the function body does not run; otherwise the body runs.
FetchCall ==
    /\ pc = "fetch_call"
    /\ trace' = Append(trace, "fetch")
    /\ cache_lookups' = cache_lookups + 1
    /\ LET key == MakeKey(access_token, selected_exchange_type, selected_programmes,
                          start_date, end_date, interval, office_id[1])
           hits == { e \in cache : e.key = key /\ Fresh(e, now) }
       IN  IF hits # {}
           THEN /\ exchange_df' = Some((CHOOSE e \in hits : TRUE).value)
                /\ pc' = "empty_check"
           ELSE /\ exchange_df' = None
                /\ pc' = "http_get"
    /\ UNCHANGED << widgets, office_id, renders, now, cache, fetch_log, gets, request,
                    response, selected_statuses, filtered_df, pivot_df, funnel_data,
                    metrics, output, shown_json >>

\* Lines 80-95: the one requests.get of the function body; the server answers r.
HttpGet(r) ==
    /\ pc = "http_get"
    /\ request' = Some(build_params(access_token, selected_exchange_type,
                                    selected_programmes, start_date, end_date,
                                    interval, office_id[1]))
    /\ gets' = gets + 1
    /\ response' = Some(r)
    /\ pc' = "status_check"
    /\ UNCHANGED << widgets, office_id, renders, now, cache, fetch_log, cache_lookups,
                    exchange_df, selected_statuses, filtered_df, pivot_df, funnel_data,
                    metrics, output, shown_json, trace >>

\* Lines 96-99.
StatusCheck ==
    /\ pc = "status_check"
    /\ IF status_fails(response[1].status)
       THEN IF json(response[1]) = None
            THEN Raise(<< "error_status" >>) /\ shown_json' = None
            ELSE Stop(<< "error_status", "json" >>) /\ shown_json' = json(response[1])
       ELSE pc' = "schema_check" /\ output' = output /\ shown_json' = None
    /\ UNCHANGED << widgets, office_id, renders, now, cache, fetch_log, cache_lookups,
                    gets, request, response, exchange_df, selected_statuses,
                    filtered_df, pivot_df, funnel_data, metrics, trace >>

\* Lines 101-105.
SchemaCheck ==
    /\ pc = "schema_check"
    /\ IF json(response[1]) = None
       THEN Raise(<< >>) /\ shown_json' = None
       ELSE IF "analytics" \notin DOMAIN json(response[1])[1]
            THEN Stop(<< "error_schema", "json" >>) /\ shown_json' = json(response[1])
            ELSE pc' = "normalize" /\ output' = output /\ shown_json' = None
    /\ UNCHANGED << widgets, office_id, renders, now, cache, fetch_log, cache_lookups,
                    gets, request, response, exchange_df, selected_statuses,
                    filtered_df, pivot_df, funnel_data, metrics, trace >>

\* Lines 107-134, and the wrapper storing the returned frame under the key.
Normalize ==
    /\ pc = "normalize"
    /\ trace' = Append(trace, "normalize")
    /\ LET df == normalize(json(response[1])[1]["analytics"])
           key == MakeKey(access_token, selected_exchange_type, selected_programmes,
                          start_date, end_date, interval, office_id[1])
       IN  /\ exchange_df' = Some(df)
           /\ cache' = { e \in cache : e.key # key }
                         \cup { [key |-> key, value |-> df, stored_at |-> now] }
           /\ fetch_log' = fetch_log \cup
                  { [args |-> << access_token, selected_exchange_type,
                                 selected_programmes, start_date, end_date,
                                 interval, office_id[1] >>,
                     at |-> now, render |-> renders, value |-> df] }
    /\ pc' = "empty_check"
    /\ UNCHANGED << widgets, office_id, renders, now, cache_lookups, gets, request,
                    response, selected_statuses, filtered_df, pivot_df, funnel_data,
                    metrics, output, shown_json >>

\* Lines 146-148.
EmptyCheck ==
    /\ pc = "empty_check"
    /\ IF exchange_df[1] = << >>
       THEN Stop(<< "warning_no_data" >>)
       ELSE pc' = "filter" /\ output' = output
    /\ UNCHANGED << widgets, office_id, renders, now, cache, fetch_log, cache_lookups,
                    gets, request, response, exchange_df, selected_statuses,
                    filtered_df, pivot_df, funnel_data, metrics, shown_json, trace >>

\* Lines 152-162: the multiselect holds the user's choice among the statuses.
Filter(selected) ==
    /\ pc = "filter"
    /\ selected \subseteq unique_statuses(exchange_df[1])
    /\ trace' = Append(trace, "aggregate")
    /\ selected_statuses' = selected
    /\ filtered_df' = Some(filter_rows(exchange_df[1], selected))
    /\ pc' = "chart"
    /\ UNCHANGED << widgets, office_id, renders, now, cache, fetch_log, cache_lookups,
                    gets, request, response, exchange_df, pivot_df, funnel_data,
                    metrics, output, shown_json >>

\* Lines 166-179.
Chart ==
    /\ pc = "chart"
    /\ trace' = Append(trace, "present")
    /\ output' = Append(output, "chart")
    /\ pc' = "pivot"
    /\ UNCHANGED << widgets, office_id, renders, now, cache, fetch_log, cache_lookups,
                    gets, request, response, exchange_df, selected_statuses,
                    filtered_df, pivot_df, funnel_data, metrics, shown_json >>

\* Lines 183-184.
Pivot ==
    /\ pc = "pivot"
    /\ IF has_duplicate_entries(filtered_df[1])
       THEN Raise(<< >>) /\ pivot_df' = None
       ELSE /\ pivot_df' = Some(pivot(filtered_df[1]))
            /\ output' = output
            /\ pc' = "funnel"
    /\ UNCHANGED << widgets, office_id, renders, now, cache, fetch_log, cache_lookups,
                    gets, request, response, exchange_df, selected_statuses,
                    filtered_df, funnel_data, metrics, shown_json, trace >>

\* Lines 185-202.
Funnel ==
    /\ pc = "funnel"
    /\ funnel_data' = funnel(pivot_df[1])
    /\ output' = Append(output, "table")
    /\ pc' = "metrics"
    /\ UNCHANGED << widgets, office_id, renders, now, cache, fetch_log, cache_lookups,
                    gets, request, response, exchange_df, selected_statuses,
                    filtered_df, pivot_df, metrics, shown_json, trace >>

\* Lines 206-218.
Metrics ==
    /\ pc = "metrics"
    /\ metrics' = Some(key_metrics(pivot_df[1]))
    /\ output' = Append(output, "metrics")
    /\ pc' = "done"
    /\ UNCHANGED << widgets, office_id, renders, now, cache, fetch_log, cache_lookups,
                    gets, request, response, exchange_df, selected_statuses,
                    filtered_df, pivot_df, funnel_data, shown_json, trace >>

\* ---------------------------------------------------------------- inputs
Bucket(month, count) == [key_as_string |-> << 2024, month >>, doc_count |-> count]
Stage(buckets) == [applications |-> [buckets |-> buckets]]

StageWithoutApplications == [people |-> [buckets |-> << Bucket(1, 9) >>]]
StageWithoutBuckets == [applications |-> [doc_count |-> 9]]

\* The payload of the normalizer example: one Applied bucket, nothing else.
PayloadSingle == [total_applications |-> Stage(<< Bucket(1, 10) >>)]

\* Several stages, buckets out of date order, stages without data.
PayloadSparse ==
    [total_applications |-> Stage(<< Bucket(2, 50), Bucket(1, 100) >>),
     total_an_accepted |-> StageWithoutApplications,
     total_approvals |-> Stage(<< Bucket(1, 40) >>),
     total_realized |-> Stage(<< Bucket(2, 20) >>),
     total_finished |-> StageWithoutBuckets]

\* Overlapping buckets: two Applied buckets for 2024-01.
PayloadOverlap ==
    [total_applications |-> Stage(<< Bucket(1, 3), Bucket(1, 4) >>),
     total_approvals |-> Stage(<< Bucket(1, 2) >>)]

SamplePayloads == { EmptyObj, PayloadSingle, PayloadSparse, PayloadOverlap }

BodyNotJson == [is_json |-> FALSE]
BodyJson(value) == [is_json |-> TRUE, value |-> value]
BodyError == BodyJson([error |-> "invalid_token"])

Bodies == { BodyNotJson, BodyError } \cup { BodyJson([analytics |-> p]) : p \in SamplePayloads }
Statuses == { 200, 201, 404 }
Responses == [status : Statuses, body : Bodies]

AllProgrammes == << "GlobalVolunteer", "GlobalTalent", "GlobalTeacher" >>
Tokens == { "", "tokenA" }
EntityInputs == { << >>, << "a", "b", "c" >>, << "7" >>, << "-", "1", "2" >> }
DefaultStart == << 2024, 1, 1 >>
DefaultEnd == << 2024, 12, 31 >>

\* The state of a fresh session, before the first script run.
Init ==
    /\ access_token = ""
    /\ selected_exchange_type = "Outgoing"
    /\ selected_programmes = AllProgrammes
    /\ entity_id_input = << >>
    /\ start_date = DefaultStart
    /\ end_date = DefaultEnd
    /\ office_id = None
    /\ pc = "idle"
    /\ renders = 0
    /\ now = 0
    /\ cache = {}
    /\ fetch_log = {}
    /\ cache_lookups = 0
    /\ gets = 0
    /\ request = None
    /\ response = None
    /\ exchange_df = None
    /\ selected_statuses = {}
    /\ filtered_df = None
    /\ pivot_df = None
    /\ funnel_data = << >>
    /\ metrics = None
    /\ output = << >>
    /\ shown_json = None
    /\ trace = << >>

Script ==
    \/ TokenGuard
    \/ EntityGuard
    \/ FetchCall
    \/ StatusCheck
    \/ SchemaCheck
    \/ Normalize
    \/ EmptyCheck
    \/ Chart
    \/ Pivot
    \/ Funnel
    \/ Metrics

\* The user sets the token and the entity id, which starts a script run.
Interact ==
    \E token \in Tokens, entity \in EntityInputs :
        /\ renders < MaxRenders
        /\ Rerun(token, "Outgoing", AllProgrammes, entity, DefaultStart, DefaultEnd)

Next ==
    \/ Interact
    \/ \E r \in Responses : HttpGet(r)
    \/ \E selected \in SUBSET { STATUS_MAP[i][2] : i \in 1..Len(STATUS_MAP) } :
           Filter(selected)
    \/ Script

Spec == Init /\ [][Next]_vars

\* ---------------------------------------------------------------- properties
RenderOver == pc \in Terminal

\* The Pivot step of this render has run.
AfterPivot == filtered_df # None /\ pc \in { "funnel", "metrics", "done", "exception" }

\* Sum of the counts of the rows of df of one stage, and of one (date, stage).
RECURSIVE StageTotal(_, _)
StageTotal(df, stage) ==
    IF df = << >> THEN 0
    ELSE (IF Head(df).status = stage THEN Head(df).count ELSE 0)
           + StageTotal(Tail(df), stage)

RECURSIVE CellTotal(_, _, _)
CellTotal(df, date, stage) ==
    IF df = << >> THEN 0
    ELSE (IF Head(df).date = date /\ Head(df).status = stage THEN Head(df).count ELSE 0)
           + CellTotal(Tail(df), date, stage)

NothingAggregated == pivot_df = None /\ funnel_data = << >> /\ metrics = None

\* No FunnelRow survived filtering: the fetched table was empty, or the filter
\* left no row.
NoRowSurvives ==
    \/ exchange_df = Some(<< >>) /\ pc # "empty_check"
    \/ filtered_df = Some(<< >>)

\* C1: whenever the filtered table holds two or more rows with the same (date,
\* stage), the pivot step succeeds and every (date, stage) cell of the PivotTable is
\* the sum of the counts of the rows of that (date, stage).
C1_DuplicatesAreSummed ==
    (AfterPivot /\ has_duplicate_entries(filtered_df[1])) =>
        /\ pc # "exception"
        /\ pivot_df # None
        /\ \A i \in 1..Len(filtered_df[1]) :
               LET r == filtered_df[1][i]
               IN  /\ << r.date, r.status >> \in DOMAIN pivot_df[1].cell
                   /\ pivot_df[1].cell[<< r.date, r.status >>]
                          = CellTotal(filtered_df[1], r.date, r.status)

\* C2: a render in which no row survives filtering ends stopped with the "no data"
\* warning, and with no PivotTable, FunnelSteps or Metrics.
C2_EmptyAfterFilterStops ==
    (RenderOver /\ NoRowSurvives) =>
        /\ pc = "stopped"
        /\ "warning_no_data" \in Range(output)
        /\ NothingAggregated

LacksAnalytics(resp) ==
    ~ resp.body.is_json \/ "analytics" \notin DOMAIN resp.body.value

BodySurfaced ==
    /\ response[1].body.is_json
    /\ "json" \in Range(output)
    /\ shown_json = Some(response[1].body.value)

\* C4: a render whose response has a non-2xx status, or a 2xx status and no
\* top-level "analytics" key, ends aborted with the response body shown, and with no
\* FunnelTable, PivotTable, FunnelSteps or Metrics.
C4_BadResponseAbortsWithBody ==
    (RenderOver /\ response # None
       /\ (response[1].status \notin 200..299 \/ LacksAnalytics(response[1]))) =>
        /\ pc \in { "stopped", "exception" }
        /\ BodySurfaced
        /\ exchange_df = None
        /\ filtered_df = None
        /\ NothingAggregated

BadInput == access_token = "" \/ entity_id_input \in { << >>, << "a", "b", "c" >> }

\* C5: in a render whose token is empty or whose entity id is "" or "abc", no cache
\* lookup and no GET happens, no later stage runs, and the render ends stopped with
\* only the input message on the page.
C5_BadInputNeverFetches ==
    BadInput =>
        /\ pc \in { "idle", "token_guard", "entity_guard", "stopped" }
        /\ cache_lookups = 0
        /\ gets = 0
        /\ request = None
        /\ response = None
        /\ exchange_df = None
        /\ filtered_df = None
        /\ NothingAggregated
        /\ "fetch" \notin Range(trace)
        /\ pc = "stopped" =>
               output = IF access_token = "" THEN << "info_token" >>
                        ELSE << "warning_entity" >>

C5_Witness ==
    /\ pc = "stopped"
    /\ access_token # ""
    /\ entity_id_input = << "a", "b", "c" >>
    /\ output = << "warning_entity" >>

StageSequence == << "Applied", "Accepted", "Approved", "Realized", "Finished", "Completed" >>

IsRatio(r, to_total, from_total) ==
    IF from_total > 0
    THEN r.den # 0 /\ r.num * from_total = to_total * r.den
    ELSE r.num = 0 /\ r.den # 0

FunnelStepsAreRight ==
    /\ Len(funnel_data) = 5
    /\ \A i \in 1..5 :
           /\ funnel_data[i].step_from = StageSequence[i]
           /\ funnel_data[i].step_to = StageSequence[i + 1]
           /\ funnel_data[i].from_count = StageTotal(filtered_df[1], StageSequence[i])
           /\ funnel_data[i].to_count = StageTotal(filtered_df[1], StageSequence[i + 1])
           /\ IsRatio(funnel_data[i].conversion, funnel_data[i].to_count,
                      funnel_data[i].from_count)

\* C7: every render that filtered a table ends with exactly 5 FunnelSteps, for the
\* adjacent pairs of Applied, Accepted, Approved, Realized, Finished, Completed in
\* order; fromTotal and toTotal are the sums of the stage's counts over the filtered
\* rows, and conversionRate is toTotal/fromTotal, or 0 when fromTotal is 0.
C7_FiveFunnelSteps ==
    (RenderOver /\ filtered_df # None) => FunnelStepsAreRight

MetricsAreRight ==
    /\ metrics # None
    /\ metrics[1].total_applied = StageTotal(filtered_df[1], "Applied")
    /\ metrics[1].total_approved = StageTotal(filtered_df[1], "Approved")
    /\ metrics[1].total_realized = StageTotal(filtered_df[1], "Realized")
    /\ IsRatio(metrics[1].realization_rate, metrics[1].total_realized,
               metrics[1].total_applied)

\* C8: every render that filtered a table ends with Metrics whose totals are the
\* sums of the Applied, Approved and Realized counts of the filtered rows, and whose
\* realizationRate is totalRealized/totalApplied, or 0 when totalApplied is 0.
C8_KeyMetrics ==
    (RenderOver /\ filtered_df # None) => MetricsAreRight

StageRank == [input |-> 1, fetch |-> 2, normalize |-> 3, aggregate |-> 4, present |-> 5]

StagesInOrder ==
    \A i, j \in 1..Len(trace) : i < j => StageRank[trace[i]] < StageRank[trace[j]]

FatalReported ==
    \E i \in 1..Len(output) :
        output[i] \in { "info_token", "warning_entity", "error_status", "error_schema" }

\* C9: in every render the stages are entered at most once each and in the order
\* input, fetch, normalize, aggregate, present; at most one GET is issued; and once
\* an input, transport or schema error or the empty result has occurred, no later
\* stage has run.
C9_LinearAndTerminal ==
    /\ StagesInOrder
    /\ gets <= 1
    /\ FatalReported =>
           /\ pc \in { "stopped", "exception" }
           /\ exchange_df = None
           /\ filtered_df = None
           /\ NothingAggregated
    /\ NoRowSurvives =>
           /\ "present" \notin Range(trace)
           /\ NothingAggregated

\* C10: a render whose response has any status other than 200 ends aborted with the
\* status error on the page and no FunnelTable, whatever the body holds.
C10_Only200Proceeds ==
    (response # None /\ response[1].status # 200 /\ pc # "status_check") =>
        /\ pc \in { "stopped", "exception" }
        /\ Len(output) > 0 /\ output[1] = "error_status"
        /\ exchange_df = None
        /\ filtered_df = None
        /\ NothingAggregated
        /\ "normalize" \notin Range(trace)

C10_Witness ==
    /\ pc = "stopped"
    /\ response # None
    /\ response[1].status = 201
    /\ response[1].body.is_json
    /\ "analytics" \in DOMAIN response[1].body.value
    /\ output = << "error_status", "json" >>

\* Supporting checks: on tables without duplicate (date, stage) rows the pivot,
\* the funnel steps and the metrics are as C1, C7 and C8 describe them.
PivotOfDistinctRows ==
    (AfterPivot /\ ~ has_duplicate_entries(filtered_df[1])) =>
        /\ pivot_df # None
        /\ \A c \in DOMAIN pivot_df[1].cell :
               pivot_df[1].cell[c] = CellTotal(filtered_df[1], c[1], c[2])

FunnelOfDistinctRows ==
    (pc = "done" /\ ~ has_duplicate_entries(filtered_df[1])) =>
        FunnelStepsAreRight /\ MetricsAreRight

OneGetPerRender == StagesInOrder /\ gets <= 1


\* ---------------------------------------------------------------- the response cache
\* A session in which the token and the entity id have been typed in; every widget
\* that feeds the cache key then takes one of two values, one widget changing per
\* interaction, and time passes between script runs.
CacheTokens == { "tokenA", "tokenB" }
CacheEntities == { << "7" >>, << "8" >> }
ExchangeTypes == { "Outgoing", "Incoming" }
ProgrammeChoices == { AllProgrammes, << "GlobalVolunteer" >> }
StartDates == { DefaultStart, << 2024, 2, 1 >> }
EndDates == { DefaultEnd, << 2024, 11, 30 >> }
Advances == { 1799, 1801 }

CacheResponses ==
    { [status |-> 200, body |-> BodyJson([analytics |-> PayloadSingle])],
      [status |-> 200, body |-> BodyJson([analytics |-> PayloadSparse])],
      [status |-> 500, body |-> BodyNotJson] }

\* How many widgets differ from their current value.
Changed(token, exchange_type, programmes, entity, start, end) ==
    (IF token # access_token THEN 1 ELSE 0)
    + (IF exchange_type # selected_exchange_type THEN 1 ELSE 0)
    + (IF programmes # selected_programmes THEN 1 ELSE 0)
    + (IF entity # entity_id_input THEN 1 ELSE 0)
    + (IF start # start_date THEN 1 ELSE 0)
    + (IF end # end_date THEN 1 ELSE 0)

InitCache ==
    /\ access_token = "tokenA"
    /\ selected_exchange_type = "Outgoing"
    /\ selected_programmes = AllProgrammes
    /\ entity_id_input = << "7" >>
    /\ start_date = DefaultStart
    /\ end_date = DefaultEnd
    /\ office_id = None
    /\ pc = "idle"
    /\ renders = 0
    /\ now = 0
    /\ cache = {}
    /\ fetch_log = {}
    /\ cache_lookups = 0
    /\ gets = 0
    /\ request = None
    /\ response = None
    /\ exchange_df = None
    /\ selected_statuses = {}
    /\ filtered_df = None
    /\ pivot_df = None
    /\ funnel_data = << >>
    /\ metrics = None
    /\ output = << >>
    /\ shown_json = None
    /\ trace = << >>

\* The user changes at most one sidebar widget, which starts a script run.
InteractOnce ==
    \E token \in CacheTokens, exchange_type \in ExchangeTypes,
       programmes \in ProgrammeChoices, entity \in CacheEntities,
       start \in StartDates, end \in EndDates :
        /\ renders < MaxCacheRenders
        /\ Changed(token, exchange_type, programmes, entity, start, end) <= 1
        /\ Rerun(token, exchange_type, programmes, entity, start, end)

\* The statuses multiselect keeps its default, every status (line 157).
FilterDefault ==
    /\ pc = "filter"
    /\ Filter(unique_statuses(exchange_df[1]))

NextCache ==
    \/ InteractOnce
    \/ \E d \in Advances : Tick(d)
    \/ \E r \in CacheResponses : HttpGet(r)
    \/ FilterDefault
    \/ Script

SpecCache == InitCache /\ [][NextCache]_vars

\* The argument tuple of the fetch of this render.
CurrentArgs ==
    << access_token, selected_exchange_type, selected_programmes, start_date, end_date,
       "month", office_id[1] >>

\* C3: when the fetch of this render has returned, (a) for every fetch of an
\* earlier render that the server answered successfully with the identical tuple
\* less than 3600 seconds ago, this render issued no GET and got the same frame; and
\* (b) a frame served without a GET is the frame of an earlier successful fetch
\* with the identical tuple, never one of a tuple differing in a component.
C3_CacheServesIdenticalTupleOnly ==
    exchange_df # None =>
        /\ \A rec \in fetch_log :
               (rec.args = CurrentArgs /\ rec.render < renders /\ now - rec.at < 3600) =>
                   gets = 0 /\ exchange_df[1] = rec.value
        /\ gets = 0 =>
               \E rec \in fetch_log :
                   /\ rec.args = CurrentArgs
                   /\ rec.render < renders
                   /\ rec.value = exchange_df[1]

C3_Witness ==
    /\ exchange_df # None
    /\ gets = 0
    /\ cache_lookups = 1
    /\ \E rec \in fetch_log :
           /\ rec.args = CurrentArgs
           /\ rec.render < renders
           /\ now - rec.at > 0
           /\ now - rec.at < 3600


\* ---------------------------------------------------------------- the normalizer alone
\* A render that has received a 200 response with an "analytics" object and is about
\* to normalize it.  The payload is any analytics object of at most MaxPayloadSize
\* stage keys and buckets: the server puts it together one stage or bucket at a time.
DocCounts == { 0, 7 }

GeneratedBuckets ==
    { [key_as_string |-> << 2024, m >>, doc_count |-> c] : m \in 1..MaxMonth, c \in DocCounts }

GeneratedStages ==
    { [people |-> EmptyObj], [applications |-> EmptyObj], Stage(<< >>) }

StageKeys == { STATUS_MAP[i][1] : i \in 1..Len(STATUS_MAP) }

Payload == response[1].body.value["analytics"]

HasBuckets(data, key) ==
    /\ key \in DOMAIN data
    /\ "applications" \in DOMAIN data[key]
    /\ "buckets" \in DOMAIN data[key]["applications"]

RECURSIVE PayloadSizeFrom(_, _)
PayloadSizeFrom(data, i) ==
    IF i > Len(STATUS_MAP) THEN 0
    ELSE LET key == STATUS_MAP[i][1]
         IN  (IF key \in DOMAIN data THEN 1 ELSE 0)
             + (IF HasBuckets(data, key) THEN Len(data[key]["applications"]["buckets"]) ELSE 0)
             + PayloadSizeFrom(data, i + 1)

PayloadSize(data) == PayloadSizeFrom(data, 1)

SetPayload(data) ==
    /\ response' = Some([status |-> 200, body |-> BodyJson([analytics |-> data])])
    /\ UNCHANGED << widgets, office_id, pc, renders, now, cache, fetch_log, cache_lookups,
                    gets, request, exchange_df, selected_statuses, filtered_df,
                    pivot_df, funnel_data, metrics, output, shown_json, trace >>

\* Line 107: the payload holds one more stage key.
PayloadAddStage(key, stage) ==
    /\ pc = "normalize"
    /\ key \notin DOMAIN Payload
    /\ PayloadSize(Payload) < MaxPayloadSize
    /\ SetPayload(Payload @@ (key :> stage))

\* Line 125: a stage's "buckets" array holds one more bucket.
PayloadAddBucket(key, bucket) ==
    /\ pc = "normalize"
    /\ HasBuckets(Payload, key)
    /\ PayloadSize(Payload) < MaxPayloadSize
    /\ SetPayload([Payload EXCEPT
                      ![key] = Stage(Append(Payload[key]["applications"]["buckets"], bucket))])

InitNormalize ==
    /\ access_token = "tokenA"
    /\ selected_exchange_type = "Outgoing"
    /\ selected_programmes = AllProgrammes
    /\ entity_id_input = << "7" >>
    /\ start_date = DefaultStart
    /\ end_date = DefaultEnd
    /\ office_id = Some(7)
    /\ pc = "normalize"
    /\ renders = 1
    /\ now = 0
    /\ cache = {}
    /\ fetch_log = {}
    /\ cache_lookups = 1
    /\ gets = 1
    /\ request = Some(build_params("tokenA", "Outgoing", AllProgrammes, DefaultStart,
                                   DefaultEnd, interval, 7))
    /\ response = Some([status |-> 200, body |-> BodyJson([analytics |-> EmptyObj])])
    /\ exchange_df = None
    /\ selected_statuses = {}
    /\ filtered_df = None
    /\ pivot_df = None
    /\ funnel_data = << >>
    /\ metrics = None
    /\ output = << >>
    /\ shown_json = None
    /\ trace = << "input", "fetch" >>

NextNormalize ==
    \/ \E key \in StageKeys, stage \in GeneratedStages : PayloadAddStage(key, stage)
    \/ \E key \in StageKeys, bucket \in GeneratedBuckets : PayloadAddBucket(key, bucket)
    \/ Normalize

SpecNormalize == InitNormalize /\ [][NextNormalize]_vars

StageOrder == << "total_applications", "total_an_accepted", "total_approvals",
                 "total_realized", "total_finished", "total_completed" >>

StageLabel == [total_applications |-> "Applied", total_an_accepted |-> "Accepted",
               total_approvals |-> "Approved", total_realized |-> "Realized",
               total_finished |-> "Finished", total_completed |-> "Completed"]

BucketsOf(data, key) ==
    IF HasBuckets(data, key) THEN data[key]["applications"]["buckets"] ELSE << >>

RECURSIVE RowsBefore(_, _)
RowsBefore(data, i) ==
    IF i = 1 THEN 0
    ELSE RowsBefore(data, i - 1) + Len(BucketsOf(data, StageOrder[i - 1]))

\* C6: the normalized table is the concatenation, over the six keys in order, of
\* one row (date, label, doc_count) per bucket of the key's applications.buckets in
\* payload order; a key that is absent, or has no "applications", or whose
\* "applications" has no "buckets", contributes no row and changes no other row.
C6_NormalizeConcatenatesStages ==
    (pc = "empty_check" /\ gets = 1) =>
        LET df == exchange_df[1]
        IN  /\ Len(df) = RowsBefore(Payload, 7)
            /\ \A i \in 1..6 :
                   LET buckets == BucketsOf(Payload, StageOrder[i])
                   IN  \A n \in 1..Len(buckets) :
                           LET row == df[RowsBefore(Payload, i) + n]
                           IN  /\ row.date = to_datetime(buckets[n].key_as_string)
                               /\ row.status = StageLabel[StageOrder[i]]
                               /\ row.count = buckets[n].doc_count

C6_Witness ==
    /\ pc = "empty_check"
    /\ gets = 1
    /\ DOMAIN Payload = { "total_applications", "total_an_accepted", "total_approvals" }
    /\ Len(BucketsOf(Payload, "total_applications")) = 1
    /\ "applications" \notin DOMAIN Payload["total_an_accepted"]
    /\ Len(BucketsOf(Payload, "total_approvals")) = 1
    /\ Len(exchange_df[1]) = 2
    /\ exchange_df[1][1].status = "Applied"
    /\ exchange_df[1][2].status = "Approved"

====
